---------------------------- MODULE Spec2Model ----------------------------
(***************************************************************************)
(* Vend-O-Matic (src/app.py): an HTTP vending machine.  One shared record  *)
(* _state = {coins, inventory} guarded by one lock _lock; every request is *)
(* served by its own thread (ThreadingHTTPServer), which runs do_GET,      *)
(* do_PUT or do_DELETE.  The model follows the handlers statement by       *)
(* statement: one action per statement that takes _lock or reads or writes *)
(* _state.  The statements of a thread that touch neither (parsing,        *)
(* dispatch, the write of the response once the lock is released) run in   *)
(* the step of the statement they follow.                                  *)
(***************************************************************************)
EXTENDS Integers, Sequences, FiniteSets, TLC

(***************************************************************************)
(* Program constants and bounds.                                           *)
(***************************************************************************)
\* ITEM_PRICE = 2 (src/app.py:22)
ITEM_PRICE == 2
\* len(_state["inventory"]) of the initial [5, 5, 5] (src/app.py:19)
N == 3
\* the stock every item starts with (src/app.py:19)
InitialStock == 5

\* number of requests (one thread each) of a run
NumReq == 2
\* a run starts from a state the machine has reached with item 0 sold down
\* to a stock in 0..MaxStock and 0..MaxCoins coins on account
MaxStock == 1
MaxCoins == 2
\* the item ids the requests of the general specification address are
\* 0..MaxItemReq plus the out-of-range ids
MaxItemReq == 1

Req == 1..NumReq
Items == 0..(N - 1)
NoHolder == 0

VARIABLES
    coins,      \* _state["coins"]
    inventory,  \* _state["inventory"], a function on Items
    lock,       \* _lock: the request holding it, or NoHolder
    pc,         \* pc[r]: the statement request r executes next
    req,        \* req[r]: the request line and body r's thread received
    loc,        \* loc[r]: the local variables of r's handler
    resp,       \* resp[r]: the response written to r's socket
    pre,        \* history: the handler that took _lock last, and the _state
                \* it found
    abs,        \* history: the state of a machine applying each operation
                \* atomically when its handler takes _lock
    absRes,     \* history: absRes[r] = what that machine answers r
    start       \* history: the state the run started from

vars == <<coins, inventory, lock, pc, req, loc, resp, pre, abs, absRes, start>>

(***************************************************************************)
(* Text: str(int), int(str), json.dumps.  A text is a sequence of          *)
(* one-character strings (a path keeps a whole word as one element).       *)
(***************************************************************************)
Digits == <<"0", "1", "2", "3", "4", "5", "6", "7", "8", "9">>

RECURSIVE StrNat(_)
StrNat(n) ==
    IF n < 10 THEN <<Digits[n + 1]>>
    ELSE StrNat(n \div 10) \o <<Digits[(n % 10) + 1]>>

\* str(n) for a Python int
Str(n) == IF n < 0 THEN <<"-">> \o StrNat(0 - n) ELSE StrNat(n)

\* json.dumps of an int
JsonInt(n) == Str(n)

RECURSIVE JsonItems(_)
JsonItems(s) ==
    IF Len(s) = 0 THEN <<>>
    ELSE IF Len(s) = 1 THEN JsonInt(s[1])
    ELSE JsonInt(s[1]) \o <<",", " ">> \o JsonItems(Tail(s))

\* json.dumps of a list of ints
JsonList(s) == <<"[">> \o JsonItems(s) \o <<"]">>

\* json.dumps({"quantity": 1})
JsonQuantity == <<"{", "\"quantity\"", ":", " ">> \o JsonInt(1) \o <<"}">>


(***************************************************************************)
(* Paths.  self.path is a sequence of tokens: "/", "?" and words.          *)
(***************************************************************************)
\* path.split("?")[0]
BeforeQuery(p) ==
    IF \E i \in 1..Len(p) : p[i] = "?"
    THEN SubSeq(p, 1, (CHOOSE i \in 1..Len(p) :
                          p[i] = "?" /\ \A j \in 1..(i - 1) : p[j] # "?") - 1)
    ELSE p

RECURSIVE RStripSlash(_)
\* s.rstrip("/")
RStripSlash(p) ==
    IF Len(p) > 0 /\ p[Len(p)] = "/" THEN RStripSlash(SubSeq(p, 1, Len(p) - 1))
    ELSE p

RECURSIVE LStripSlash(_)
\* s.lstrip("/")
LStripSlash(p) ==
    IF Len(p) > 0 /\ Head(p) = "/" THEN LStripSlash(Tail(p)) ELSE p

RECURSIVE SplitSlash(_)
\* s.split("/"): the words between the slashes, "" where there is none
SplitSlash(p) ==
    IF Len(p) = 0 THEN <<"">>
    ELSE IF Head(p) = "/" THEN <<"">> \o SplitSlash(Tail(p))
    ELSE <<Head(p)>> \o Tail(SplitSlash(Tail(p)))

\* raw = self.path.split("?")[0].rstrip("/") or "/"
RawPath(p) ==
    LET r == RStripSlash(BeforeQuery(p)) IN IF Len(r) = 0 THEN <<"/">> ELSE r

\* parts = raw.lstrip("/").split("/")
Parts(p) == SplitSlash(LStripSlash(RawPath(p)))

\* int(word) on the words the requests use: the pairs <<word, value>>; a word
\* with no pair raises ValueError
IntWords ==
    {<<"0", 0>>, <<"1", 1>>, <<"2", 2>>, <<"3", 3>>, <<"-1", 0 - 1>>, <<"+1", 1>>}

IsIntWord(w) == \E e \in IntWords : e[1] = w

IntOf(w) == (CHOOSE e \in IntWords : e[1] = w)[2]

\* a range check that is off by one at the upper end
IdOutOfRangeOffByOne(item_id) == item_id < 0 \/ item_id > N

\* a range check that forgets the lower bound
IdOutOfRangeUpperOnly(item_id) == item_id >= N
\* the check of _parse_path made under _lock
IdOutOfRange(item_id) == item_id < 0 \/ item_id >= N

(***************************************************************************)
(* Requests and responses.                                                 *)
(***************************************************************************)
\* bodies: no body (Content-Length absent or 0), bytes json.loads rejects, a
\* JSON value that is no object, and an object with or without a "coin"
\* field (coin: <<>> or <<value>>)
NoBody == [kind |-> "absent", coin |-> <<>>]
BadJson == [kind |-> "malformed", coin |-> <<>>]
JsonArray == [kind |-> "array", coin |-> <<>>]
JsonObject(c) == [kind |-> "object", coin |-> c]

Request(m, p, b) == [method |-> m, path |-> p, body |-> b]
NoRequest == Request("", <<>>, NoBody)

ItemPath(w) == <<"/", "inventory", "/", w>>

InsertCoinReq(c) == Request("PUT", <<"/">>, JsonObject(<<c>>))
CancelReq == Request("DELETE", <<"/">>, NoBody)
SnapshotReq == Request("GET", <<"/", "inventory">>, NoBody)
QuantityReq(i) == Request("GET", ItemPath(Str(i)[1]), NoBody)
PurchaseReq(i) == Request("PUT", ItemPath(Str(i)[1]), NoBody)

\* the item ids requests address
ReqItems == {i \in Items : i <= MaxItemReq}

\* the five operations on valid input
CoreInputs ==
    {InsertCoinReq(c) : c \in {0, 1}} \cup {CancelReq, SnapshotReq}
        \cup {QuantityReq(i) : i \in ReqItems} \cup {PurchaseReq(i) : i \in ReqItems}

\* requests the HTTP layer rejects, and the bodies of PUT /
EdgeInputs ==
    { Request("PUT", <<"/">>, NoBody),
      Request("PUT", <<"/">>, BadJson),
      Request("PUT", <<"/">>, JsonArray),
      Request("PUT", <<"/">>, JsonObject(<<>>)),
      Request("PUT", <<"/">>, JsonObject(<<2>>)),
      Request("GET", ItemPath("3"), NoBody),
      Request("PUT", ItemPath("-1"), NoBody),
      Request("GET", ItemPath("abc"), NoBody),
      Request("PUT", <<"/", "inventory", "/", "0", "/", "?", "x">>, NoBody),
      Request("GET", <<"/">>, NoBody),
      Request("GET", <<"/", "other">>, NoBody),
      Request("PUT", <<"/", "inventory">>, NoBody),
      Request("DELETE", ItemPath("0"), NoBody),
      Request("POST", <<"/">>, NoBody) }

\* the requests of the general specification: the five operations, and an
\* item id out of range
Inputs == CoreInputs \cup {Request("GET", ItemPath(Str(N)[1]), NoBody)}

NoHeader == <<>>
NoBodyText == <<>>
\* a response: status line, the X-Coins and X-Inventory-Remaining headers
\* (<<>> when absent) and the body; status 0: nothing written yet
Response(code, xcoins, xinv, body) ==
    [status |-> code, xcoins |-> xcoins, xinv |-> xinv, body |-> body]
NoResponse == Response(0, NoHeader, NoHeader, NoBodyText)
\* an exception left the handler: the connection is closed, nothing was written
Crashed == Response(0 - 1, NoHeader, NoHeader, NoBodyText)

\* _send_error_plain(code, {}) and _send_error_plain(code, {"X-Coins": v})
ErrorPlain(code) == Response(code, NoHeader, NoHeader, NoBodyText)
\* faulty variant of ErrorCoins: the headers are dropped
ErrorCoinsNoHeader(code, v) == ErrorPlain(code)
ErrorCoins(code, v) == Response(code, <<v>>, NoHeader, NoBodyText)
\* the answer of BaseHTTPRequestHandler to a method the class has no do_
\* method for: send_error(501), which writes an HTML page
Unsupported == Response(501, NoHeader, NoHeader, <<"<html>">>)
\* _send_no_content({"X-Coins": v})
NoContent(v) == Response(204, <<v>>, NoHeader, NoBodyText)
\* _send_json(200, body, {})
JsonOk(payload) == Response(200, NoHeader, NoHeader, payload)
\* _send_json(200, {"quantity": 1}, {"X-Coins": c, "X-Inventory-Remaining": q})
PurchaseOk(c, q) == Response(200, <<c>>, <<q>>, JsonQuantity)

(***************************************************************************)
(* The state machine.                                                      *)
(***************************************************************************)
\* the locals of a handler thread; item_id is <<>> for Python's None
NoLocals ==
    [segments |-> <<>>, item_id |-> <<>>, coin |-> 0, qty |-> 0, coins |-> 0,
     total |-> 0, returned |-> 0, snapshot |-> <<>>, new_qty |-> 0, change |-> 0]

State(c, inv) == [coins |-> c, inventory |-> inv]

\* _state as constructed
Constructed == State(0, [i \in Items |-> InitialStock])

\* the machine after construction is Constructed; a run starts from a state
\* it has reached since by inserts and purchases of item 0, no request running
StartStates ==
    {State(c, [Constructed.inventory EXCEPT ![0] = q]) :
        c \in 0..MaxCoins, q \in {k \in 0..MaxStock : k <= InitialStock}}

InitFrom(S) ==
    /\ \E s \in S : coins = s.coins /\ inventory = s.inventory /\ abs = s /\ start = s
    /\ lock = NoHolder
    /\ pc = [r \in Req |-> "idle"]
    /\ req = [r \in Req |-> NoRequest]
    /\ loc = [r \in Req |-> NoLocals]
    /\ resp = [r \in Req |-> NoResponse]
    /\ pre = [r |-> NoHolder, state |-> Constructed]
    /\ absRes = [r \in Req |-> NoResponse]

Init == InitFrom(StartStates)

Shared == <<coins, inventory>>
History == <<pre, abs, absRes, start>>

\* where a thread stands after some statements: at label l with locals lc,
\* or returned with response rsp written
At(l, lc) == [pc |-> l, loc |-> lc, resp |-> NoResponse]
Replied(rsp) == [pc |-> "done", loc |-> NoLocals, resp |-> rsp]

Enter(r, t) ==
    /\ pc' = [pc EXCEPT ![r] = t.pc]
    /\ loc' = [loc EXCEPT ![r] = t.loc]
    /\ resp' = [resp EXCEPT ![r] = t.resp]

Goto(r, l) == pc' = [pc EXCEPT ![r] = l]
SetLocal(r, l) == loc' = [loc EXCEPT ![r] = l]
\* the response is written and the handler returns
Respond(r, rsp) == Enter(r, Replied(rsp))

\* faulty variant of CanAcquire: the lock excludes nobody
CanAcquireAlways == TRUE

\* `with _lock:` blocks until no thread holds the lock
CanAcquire == lock = NoHolder

\* coin not in (0, 1)
CoinRejected(coin) == coin \notin {0, 1}

\* a body reader that takes an absent coin field for a rejected value
ReadBodyCoinRequired(rq, lc) ==
    LET body == rq.body
    IN  IF body.kind = "malformed" THEN Replied(ErrorPlain(400))
        ELSE IF body.kind = "array" THEN Replied(Crashed)
        ELSE IF body.coin = <<>> \/ CoinRejected(body.coin[1]) THEN Replied(ErrorPlain(400))
        ELSE At("put_acquire", [lc EXCEPT !.coin = body.coin[1]])

\* _handle_root_put up to `with _lock`: _read_json_body, body.get("coin", 0)
\* and the validation of the coin
ReadBody(rq, lc) ==
    LET body == rq.body
        coin == IF body.coin = <<>> THEN 0 ELSE body.coin[1]
    IN  IF body.kind = "malformed" THEN Replied(ErrorPlain(400))
        ELSE IF body.kind = "array" THEN Replied(Crashed)
        ELSE IF CoinRejected(coin) THEN Replied(ErrorPlain(400))
        ELSE At("put_acquire", [lc EXCEPT !.coin = coin])

\* the handler do_<method> selects, "" when the route is unknown
Route(method, segments, item_id) ==
    LET isItem == Len(segments) = 2 /\ segments[1] = "inventory" /\ item_id # <<>>
    IN  CASE method = "GET" /\ segments = <<"inventory">> -> "snap_acquire"
          [] method = "GET" /\ segments # <<"inventory">> /\ isItem -> "get_acquire"
          [] method = "PUT" /\ segments = <<"">> -> "put_body"
          [] method = "PUT" /\ segments # <<"">> /\ isItem -> "buy_acquire"
          [] method = "DELETE" /\ segments = <<"">> -> "del_acquire"
          [] OTHER -> ""

\* do_GET, do_PUT, do_DELETE after _parse_path, up to the handler's lock
Dispatch(rq, lc) ==
    LET h == Route(rq.method, lc.segments, lc.item_id)
    IN  IF h = "" THEN Replied(ErrorPlain(404))
        ELSE IF h = "put_body" THEN ReadBody(rq, lc)
        ELSE At(h, lc)

\* _parse_path up to `with _lock`, and the dispatch when it returns before
ParsePath(rq) ==
    LET parts == Parts(rq.path)
    IN  IF RawPath(rq.path) = <<"/">>
        THEN Dispatch(rq, [NoLocals EXCEPT !.segments = <<"">>])
        ELSE IF Len(parts) = 2 /\ parts[1] = "inventory"
        THEN IF IsIntWord(parts[2])
             THEN At("pp_acquire", [NoLocals EXCEPT !.segments = parts,
                                                    !.item_id = <<IntOf(parts[2])>>])
             ELSE Replied(ErrorPlain(404))
        ELSE Dispatch(rq, [NoLocals EXCEPT !.segments = parts])

\* the methods VendingHandler defines a do_<method> for
Methods == {"GET", "PUT", "DELETE"}

\* the request handler up to the first `with _lock`: do_<method> when the
\* class defines it, else the base class's 501
Serve(rq) == IF rq.method \in Methods THEN ParsePath(rq) ELSE Replied(Unsupported)

\* a request arrives; its thread runs do_GET / do_PUT / do_DELETE up to the
\* first `with _lock`
StartFrom(r, S) ==
    /\ pc[r] = "idle"
    /\ \E i \in S : req' = [req EXCEPT ![r] = i] /\ Enter(r, Serve(i))
    /\ UNCHANGED <<Shared, lock, History>>

Start(r) == StartFrom(r, Inputs)

\* _parse_path: with _lock
ParseAcquire(r) ==
    /\ pc[r] = "pp_acquire"
    /\ CanAcquire
    /\ lock' = r
    /\ Goto(r, "pp_check")
    /\ UNCHANGED <<Shared, req, loc, resp, History>>

\* _parse_path: the range check; in range, the block ends, the lock is
\* released and do_<method> dispatches; out of range, the 404 is written
\* inside the block
ParseCheck(r) ==
    /\ pc[r] = "pp_check"
    /\ IF IdOutOfRange(loc[r].item_id[1])
       THEN Goto(r, "pp_send") /\ UNCHANGED <<lock, loc, resp>>
       ELSE Enter(r, Dispatch(req[r], loc[r])) /\ lock' = NoHolder
    /\ UNCHANGED <<Shared, req, History>>

\* faulty variant of ParseReject: the early return leaves the lock held
ParseRejectKeepsLock(r) ==
    /\ pc[r] = "pp_send"
    /\ Respond(r, ErrorPlain(404))
    /\ UNCHANGED <<Shared, lock, req, History>>

\* _parse_path: _send_error_plain(404, {}) under the lock, then return
ParseReject(r) ==
    /\ pc[r] = "pp_send"
    /\ Respond(r, ErrorPlain(404))
    /\ lock' = NoHolder
    /\ UNCHANGED <<Shared, req, History>>

(***************************************************************************)
(* History: the machine of spec sections 4.1 and 6, which applies a whole  *)
(* operation in one step.  It is run beside the handlers (abs, absRes) at  *)
(* the step where a handler takes the lock; no handler reads it.           *)
(***************************************************************************)
InvList(inv) == [k \in 1..N |-> inv[k - 1]]

AtomicInsertCoin(s, amount) ==
    [state |-> State(s.coins + amount, s.inventory),
     res |-> NoContent(Str(s.coins + amount))]

AtomicCancel(s) ==
    [state |-> State(0, s.inventory), res |-> NoContent(Str(s.coins))]

AtomicSnapshot(s) ==
    [state |-> s, res |-> JsonOk(JsonList(InvList(s.inventory)))]

AtomicQuantity(s, i) ==
    [state |-> s, res |-> JsonOk(JsonInt(s.inventory[i]))]

AtomicPurchase(s, i) ==
    IF s.inventory[i] = 0
    THEN [state |-> s, res |-> ErrorCoins(404, Str(s.coins))]
    ELSE IF s.coins < ITEM_PRICE
    THEN [state |-> s, res |-> ErrorCoins(403, Str(s.coins))]
    ELSE [state |-> State(s.coins - ITEM_PRICE,
                          [s.inventory EXCEPT ![i] = s.inventory[i] - 1]),
          res |-> PurchaseOk(Str(s.coins - ITEM_PRICE), Str(s.inventory[i] - 1))]

\* the operation the handler at label l runs for request r
Atomic(r, l, s) ==
    CASE l = "put_acquire" -> AtomicInsertCoin(s, loc[r].coin)
      [] l = "del_acquire" -> AtomicCancel(s)
      [] l = "snap_acquire" -> AtomicSnapshot(s)
      [] l = "get_acquire" -> AtomicQuantity(s, loc[r].item_id[1])
      [] l = "buy_acquire" -> AtomicPurchase(s, loc[r].item_id[1])

\* a handler's `with _lock:`; the history variables record the state it finds
HandlerAcquire(r, l, next) ==
    /\ pc[r] = l
    /\ CanAcquire
    /\ lock' = r
    /\ Goto(r, next)
    /\ pre' = [r |-> r, state |-> State(coins, inventory)]
    /\ abs' = Atomic(r, l, abs).state
    /\ absRes' = [absRes EXCEPT ![r] = Atomic(r, l, abs).res]
    /\ UNCHANGED <<Shared, req, loc, resp, start>>

(***************************************************************************)
(* PUT / : _handle_root_put                                                *)
(***************************************************************************)
InsertAcquire(r) == HandlerAcquire(r, "put_acquire", "put_add")

\* faulty variant of AddCoin: the coin is accepted and not credited
AddCoinLost(c, coin) == c

\* _state["coins"] += coin
AddCoin(c, coin) == c + coin

InsertAdd(r) ==
    /\ pc[r] = "put_add"
    /\ coins' = AddCoin(coins, loc[r].coin)
    /\ Goto(r, "put_total")
    /\ UNCHANGED <<inventory, lock, req, loc, resp, History>>

\* total = _state["coins"]; the block ends; _send_no_content
InsertTotal(r) ==
    /\ pc[r] = "put_total"
    /\ lock' = NoHolder
    /\ Respond(r, NoContent(Str(coins)))
    /\ UNCHANGED <<Shared, req, History>>

(***************************************************************************)
(* DELETE / : _handle_root_delete                                          *)
(***************************************************************************)
CancelAcquire(r) == HandlerAcquire(r, "del_acquire", "del_read")

\* returned = _state["coins"]
CancelRead(r) ==
    /\ pc[r] = "del_read"
    /\ SetLocal(r, [loc[r] EXCEPT !.returned = coins])
    /\ Goto(r, "del_reset")
    /\ UNCHANGED <<Shared, lock, req, resp, History>>

\* faulty variant of CancelReset: the coins are returned and kept
CancelResetKeepsCoins(r) ==
    /\ pc[r] = "del_reset"
    /\ lock' = NoHolder
    /\ Respond(r, NoContent(Str(loc[r].returned)))
    /\ UNCHANGED <<Shared, req, History>>

\* _state["coins"] = 0; the block ends; _send_no_content
CancelReset(r) ==
    /\ pc[r] = "del_reset"
    /\ coins' = 0
    /\ lock' = NoHolder
    /\ Respond(r, NoContent(Str(loc[r].returned)))
    /\ UNCHANGED <<inventory, req, History>>

(***************************************************************************)
(* GET /inventory : _handle_inventory_get                                  *)
(***************************************************************************)
SnapshotAcquire(r) == HandlerAcquire(r, "snap_acquire", "snap_copy")

\* snapshot = list(_state["inventory"]): list() copies the elements in
\* order, one per step; after the last the block ends; _send_json
SnapshotCopy(r) ==
    /\ pc[r] = "snap_copy"
    /\ LET snapshot == Append(loc[r].snapshot, inventory[Len(loc[r].snapshot)])
       IN  IF Len(snapshot) = N
           THEN lock' = NoHolder /\ Respond(r, JsonOk(JsonList(snapshot)))
           ELSE /\ SetLocal(r, [loc[r] EXCEPT !.snapshot = snapshot])
                /\ UNCHANGED <<lock, pc, resp>>
    /\ UNCHANGED <<Shared, req, History>>

(***************************************************************************)
(* GET /inventory/:id : _handle_item_get                                   *)
(***************************************************************************)
QuantityAcquire(r) == HandlerAcquire(r, "get_acquire", "get_read")

\* qty = _state["inventory"][item_id]; the block ends; _send_json
QuantityRead(r) ==
    /\ pc[r] = "get_read"
    /\ lock' = NoHolder
    /\ Respond(r, JsonOk(JsonInt(inventory[loc[r].item_id[1]])))
    /\ UNCHANGED <<Shared, req, History>>

(***************************************************************************)
(* PUT /inventory/:id : _handle_item_put                                   *)
(***************************************************************************)
PurchaseAcquire(r) == HandlerAcquire(r, "buy_acquire", "buy_qty")

\* qty = _state["inventory"][item_id]
PurchaseReadQty(r) ==
    /\ pc[r] = "buy_qty"
    /\ SetLocal(r, [loc[r] EXCEPT !.qty = inventory[loc[r].item_id[1]]])
    /\ Goto(r, "buy_coins")
    /\ UNCHANGED <<Shared, lock, req, resp, History>>

\* Check 1: if qty == 0
OutOfStock(qty) == qty = 0
\* faulty variant of InsufficientFunds: one quarter is taken for enough
InsufficientFundsBelowOne(c) == c < ITEM_PRICE - 1

\* Check 2: if coins < ITEM_PRICE
InsufficientFunds(c) == c < ITEM_PRICE

\* faulty variant of PurchaseBranch: the funds are checked before the stock
PurchaseBranchFundsFirst(qty, c) ==
    IF InsufficientFunds(c) THEN "buy_send403"
    ELSE IF OutOfStock(qty) THEN "buy_send404"
    ELSE "buy_dec_inv"

\* the branch the two checks select, check 1 first
PurchaseBranch(qty, c) ==
    IF OutOfStock(qty) THEN "buy_send404"
    ELSE IF InsufficientFunds(c) THEN "buy_send403"
    ELSE "buy_dec_inv"

\* coins = _state["coins"], then the two checks
PurchaseReadCoins(r) ==
    /\ pc[r] = "buy_coins"
    /\ SetLocal(r, [loc[r] EXCEPT !.coins = coins])
    /\ Goto(r, PurchaseBranch(loc[r].qty, coins))
    /\ UNCHANGED <<Shared, lock, req, resp, History>>

\* _send_error_plain(404, {"X-Coins": str(coins)}) under the lock, then return
PurchaseOutOfStock(r) ==
    /\ pc[r] = "buy_send404"
    /\ Respond(r, ErrorCoins(404, Str(loc[r].coins)))
    /\ lock' = NoHolder
    /\ UNCHANGED <<Shared, req, History>>

\* _send_error_plain(403, {"X-Coins": str(coins)}) under the lock, then return
PurchaseInsufficient(r) ==
    /\ pc[r] = "buy_send403"
    /\ Respond(r, ErrorCoins(403, Str(loc[r].coins)))
    /\ lock' = NoHolder
    /\ UNCHANGED <<Shared, req, History>>

\* faulty variant of Dispense: two units leave the stock
DispenseTwo(qty) == qty - 2

\* _state["inventory"][item_id] -= 1
Dispense(qty) == qty - 1
\* faulty variant of Debit: the change is paid out, nothing stays on account
DebitAll(c) == 0

\* _state["coins"] -= ITEM_PRICE
Debit(c) == c - ITEM_PRICE

PurchaseDecInventory(r) ==
    /\ pc[r] = "buy_dec_inv"
    /\ inventory' = [inventory EXCEPT ![loc[r].item_id[1]] = Dispense(@)]
    /\ Goto(r, "buy_dec_coins")
    /\ UNCHANGED <<coins, lock, req, loc, resp, History>>

PurchaseDecCoins(r) ==
    /\ pc[r] = "buy_dec_coins"
    /\ coins' = Debit(coins)
    /\ Goto(r, "buy_new_qty")
    /\ UNCHANGED <<inventory, lock, req, loc, resp, History>>

\* new_qty = _state["inventory"][item_id]
PurchaseReadNewQty(r) ==
    /\ pc[r] = "buy_new_qty"
    /\ SetLocal(r, [loc[r] EXCEPT !.new_qty = inventory[loc[r].item_id[1]]])
    /\ Goto(r, "buy_change")
    /\ UNCHANGED <<Shared, lock, req, resp, History>>

\* change = _state["coins"]; the block ends; _send_json
PurchaseReadChange(r) ==
    /\ pc[r] = "buy_change"
    /\ lock' = NoHolder
    /\ Respond(r, PurchaseOk(Str(coins), Str(loc[r].new_qty)))
    /\ UNCHANGED <<Shared, req, History>>

(***************************************************************************)
(* Specifications.                                                         *)
(***************************************************************************)
ParseItemId(r) ==
    \/ ParseAcquire(r)
    \/ ParseCheck(r)

InsertCoin(r) ==
    \/ InsertAcquire(r)
    \/ InsertAdd(r)
    \/ InsertTotal(r)

CancelTransaction(r) ==
    \/ CancelAcquire(r)
    \/ CancelRead(r)
    \/ CancelReset(r)

GetInventorySnapshot(r) ==
    \/ SnapshotAcquire(r)
    \/ SnapshotCopy(r)

GetItemQuantity(r) ==
    \/ QuantityAcquire(r)
    \/ QuantityRead(r)

PurchaseItem(r) ==
    \/ PurchaseAcquire(r)
    \/ PurchaseReadQty(r)
    \/ PurchaseReadCoins(r)
    \/ PurchaseOutOfStock(r)
    \/ PurchaseInsufficient(r)
    \/ PurchaseDecInventory(r)
    \/ PurchaseDecCoins(r)
    \/ PurchaseReadNewQty(r)
    \/ PurchaseReadChange(r)

\* any requests, concurrently
Next ==
    \E r \in Req :
        \/ Start(r)
        \/ ParseItemId(r)
        \/ ParseReject(r)
        \/ InsertCoin(r)
        \/ CancelTransaction(r)
        \/ GetInventorySnapshot(r)
        \/ GetItemQuantity(r)
        \/ PurchaseItem(r)

Spec == Init /\ [][Next]_vars

(***************************************************************************)
(* What a request was routed to, read off the request.                     *)
(***************************************************************************)
\* the handler label do_<method> reaches for request rq, "done" when the
\* request is answered before any handler runs
HandlerOf(rq) ==
    LET t == Serve(rq)
    IN  IF t.pc # "pp_acquire" THEN t.pc
        ELSE IF IdOutOfRange(t.loc.item_id[1]) THEN "done"
        ELSE Dispatch(rq, t.loc).pc

\* the item id _parse_path extracts from rq
ItemOf(rq) == ParsePath(rq).loc.item_id[1]

\* r has responded and no handler has taken the lock since r's did: pre.state
\* is the state r's operation found
JustServed(r, handler) ==
    pc[r] = "done" /\ pre.r = r /\ HandlerOf(req[r]) = handler

AllDone == \A r \in Req : pc[r] = "done"

(***************************************************************************)
(* C1.  K concurrent purchases of one item against stock S < K.            *)
(***************************************************************************)
\* the race: stock S < K of item 0 and coins for S purchases or more
PurchaseRaceStates ==
    {s \in {State(c, [Constructed.inventory EXCEPT ![0] = q]) :
                c \in 0..(ITEM_PRICE * (MaxStock + 1)), q \in 0..MaxStock} :
        s.inventory[0] < NumReq /\ s.coins >= ITEM_PRICE * s.inventory[0]}

PurchaseRaceInit == InitFrom(PurchaseRaceStates)

PurchaseRaceNext ==
    \E r \in Req :
        \/ StartFrom(r, {PurchaseReq(0)})
        \/ ParseItemId(r)
        \/ PurchaseAcquire(r)
        \/ PurchaseReadQty(r)
        \/ PurchaseReadCoins(r)
        \/ PurchaseOutOfStock(r)
        \/ PurchaseDecInventory(r)
        \/ PurchaseDecCoins(r)
        \/ PurchaseReadNewQty(r)
        \/ PurchaseReadChange(r)

\* every request is PurchaseItem(0), all concurrent
SpecPurchaseRace == PurchaseRaceInit /\ [][PurchaseRaceNext]_vars

Answered(code) == {r \in Req : pc[r] = "done" /\ resp[r].status = code}

\* C1: when the K = NumReq concurrent purchases of item 0 against stock
\* S < K (coins for S purchases on account) have all been answered, exactly
\* S of them succeeded, exactly K - S failed with 404, and inventory[0] is 0;
\* on the way inventory[0] never leaves 0..S.
C1_ExactlyStockSucceed ==
    /\ inventory[0] \in 0..start.inventory[0]
    /\ AllDone =>
         /\ Cardinality(Answered(200)) = start.inventory[0]
         /\ Cardinality(Answered(404)) = NumReq - start.inventory[0]
         /\ inventory[0] = 0

C1_Witness ==
    /\ AllDone
    /\ start.inventory[0] >= 1
    /\ Answered(200) # {}
    /\ Answered(404) # {}
    /\ inventory[0] = 0

(***************************************************************************)
(* C2.  The priority of the two checks of PurchaseItem.                    *)
(***************************************************************************)
\* C2: a PurchaseItem(i) that took effect on a state with inventory[i] = 0
\* answered 404, whatever the coins; one that answered 403 took effect on a
\* state with inventory[i] > 0 and coins < ITEM_PRICE.
C2_StockCheckedFirst ==
    \A r \in Req :
        JustServed(r, "buy_acquire") =>
            LET i == ItemOf(req[r]) IN
            /\ pre.state.inventory[i] = 0 => resp[r].status = 404
            /\ resp[r].status = 403 =>
                 pre.state.inventory[i] > 0 /\ pre.state.coins < ITEM_PRICE

C2_Witness ==
    \E r \in Req :
        /\ JustServed(r, "buy_acquire")
        /\ pre.state.inventory[ItemOf(req[r])] = 0
        /\ pre.state.coins < ITEM_PRICE
        /\ resp[r].status = 404

(***************************************************************************)
(* C3.  Nothing goes negative.                                             *)
(***************************************************************************)
\* C3: in every reachable state, also inside a handler, coins >= 0 and
\* inventory[i] >= 0 for every item i.
C3_NonNegative ==
    /\ coins >= 0
    /\ \A i \in Items : inventory[i] >= 0

\* a purchase has taken the last unit of an item and the last coins
C3_Witness ==
    \E r \in Req :
        /\ JustServed(r, "buy_acquire")
        /\ resp[r].status = 200
        /\ coins = 0
        /\ inventory[ItemOf(req[r])] = 0

(***************************************************************************)
(* C4.  Serializability.                                                   *)
(***************************************************************************)
\* C4: the handlers behave as the machine that applies each operation in one
\* step, at the moment its handler takes the lock (a moment between the
\* request's arrival and its response): every answered operation got the
\* answer of that machine, and whenever no handler is inside its block
\* (coins, inventory) is that machine's state.
C4_Serializable ==
    /\ lock = NoHolder => State(coins, inventory) = abs
    /\ \A r \in Req :
          pc[r] = "done" /\ HandlerOf(req[r]) # "done" => resp[r] = absRes[r]

\* two operations that overlapped: a purchase is inside its block while an
\* insert waits for the lock, or the reverse
C4_Witness ==
    \E r, q \in Req :
        \/ pc[r] = "buy_dec_coins" /\ pc[q] = "put_acquire" /\ loc[q].coin = 1
        \/ pc[r] = "put_total" /\ loc[r].coin = 1 /\ pc[q] = "buy_acquire"

C6_FailedPurchaseKeepsState ==
    \A r \in Req :
        JustServed(r, "buy_acquire") /\ resp[r].status \in {403, 404} =>
            /\ State(coins, inventory) = pre.state
            /\ resp[r].xcoins = <<Str(coins)>>

\* out of stock with the price on account: the coins are kept
C6_Witness ==
    \E r \in Req :
        /\ JustServed(r, "buy_acquire")
        /\ resp[r].status = 404
        /\ coins = ITEM_PRICE

(***************************************************************************)
(* C7.  K concurrent InsertCoin(1).                                        *)
(***************************************************************************)
InsertRaceInit == InitFrom(StartStates)

InsertRaceNext ==
    \E r \in Req :
        \/ StartFrom(r, {InsertCoinReq(1)})
        \/ InsertCoin(r)

\* every request is InsertCoin(1), all concurrent
SpecInsertRace == InsertRaceInit /\ [][InsertRaceNext]_vars

\* C7: an InsertCoin(1) answers the total right after its own increment;
\* when the K = NumReq concurrent InsertCoin(1) started at coins = c have all
\* been answered, their X-Coins values are c+1, ..., c+K, each once, and
\* coins is c+K.
C7_InsertTotalsDistinct ==
    /\ \A r \in Req :
          JustServed(r, "put_acquire") =>
              resp[r] = NoContent(Str(pre.state.coins + 1))
    /\ AllDone =>
          /\ {resp[r].xcoins : r \in Req} =
                {<<Str(start.coins + k)>> : k \in 1..NumReq}
          /\ Cardinality({resp[r].xcoins : r \in Req}) = NumReq
          /\ \A r \in Req : resp[r].status = 204
          /\ coins = start.coins + NumReq

C7_Witness ==
    /\ AllDone
    /\ coins = start.coins + NumReq
    /\ \E r \in Req : resp[r].xcoins = <<Str(start.coins + 1)>>
    /\ \E r \in Req : resp[r].xcoins = <<Str(start.coins + NumReq)>>

(***************************************************************************)
(* C8.  CancelTransaction.                                                 *)
(***************************************************************************)
\* C8: a CancelTransaction answered the coins it found, and when it has
\* answered coins is 0 and the inventory is as it found it; on a state with
\* coins = 0 it answered 0 and left the whole state as it was.
C8_CancelReturnsAll ==
    \A r \in Req :
        JustServed(r, "del_acquire") =>
            /\ resp[r] = NoContent(Str(pre.state.coins))
            /\ coins = 0
            /\ inventory = pre.state.inventory
            /\ pre.state.coins = 0 =>
                 resp[r] = NoContent(Str(0)) /\ State(coins, inventory) = pre.state

\* a cancel that returned coins, then a second one right after it: 0
C8_Witness ==
    \E r, q \in Req :
        /\ r # q
        /\ pc[q] = "done" /\ HandlerOf(req[q]) = "del_acquire"
        /\ resp[q].xcoins # <<Str(0)>>
        /\ JustServed(r, "del_acquire")
        /\ pre.state.coins = 0
        /\ resp[r].xcoins = <<Str(0)>>

(***************************************************************************)
(* C9.  GetInventorySnapshot.                                              *)
(***************************************************************************)
\* C9: a GetInventorySnapshot answered the whole inventory as it was at one
\* instant, the one at which its handler took the lock, and changed nothing.
C9_SnapshotOneInstant ==
    \A r \in Req :
        JustServed(r, "snap_acquire") =>
            /\ resp[r] = JsonOk(JsonList(InvList(pre.state.inventory)))
            /\ State(coins, inventory) = pre.state

\* a snapshot answered while a purchase that arrived meanwhile waits
C9_Witness ==
    \E r, q \in Req :
        /\ JustServed(r, "snap_acquire")
        /\ pc[q] = "buy_acquire"
        /\ pre.state.coins >= ITEM_PRICE
        /\ pre.state.inventory[loc[q].item_id[1]] > 0

(***************************************************************************)
(* C10.  No half-applied purchase is read.                                 *)
(***************************************************************************)
\* the labels whose statement reads _state["coins"] or _state["inventory"]
ReadLabels ==
    {"pp_check", "put_add", "put_total", "del_read", "snap_copy", "get_read",
     "buy_qty", "buy_coins", "buy_dec_inv", "buy_dec_coins", "buy_new_qty",
     "buy_change"}

\* request q has taken an item out of the inventory and not yet the price
\* out of the coins
HalfApplied(q) == pc[q] = "buy_dec_coins"

\* C10: while a purchase has decremented inventory[item] and not yet debited
\* coins, no other request stands at a statement that reads coins or
\* inventory; the reverse order (coins debited first) does not occur: outside
\* that window a holder of the lock left (coins, inventory) whole.
C10_NoPartialPurchaseRead ==
    \A q \in Req :
        HalfApplied(q) =>
            /\ \A r \in Req \ {q} : pc[r] \notin ReadLabels
            /\ coins = pre.state.coins
            /\ inventory[loc[q].item_id[1]] = pre.state.inventory[loc[q].item_id[1]] - 1

\* a purchase is half applied while a reader waits for the lock
C10_Witness ==
    \E q, r \in Req :
        /\ HalfApplied(q)
        /\ pc[r] \in {"snap_acquire", "get_acquire", "del_acquire"}

(***************************************************************************)
(* The HTTP layer: requests it rejects, beside inserts and purchases.      *)
(***************************************************************************)
HttpInputs == EdgeInputs \cup {InsertCoinReq(1), PurchaseReq(0)}

HttpNext ==
    \E r \in Req :
        \/ StartFrom(r, HttpInputs)
        \/ ParseItemId(r)
        \/ ParseReject(r)
        \/ InsertCoin(r)
        \/ PurchaseItem(r)

SpecHttp == Init /\ [][HttpNext]_vars

(***************************************************************************)
(* C11.  An item id that is no integer in [0, N).                          *)
(***************************************************************************)
\* rq is a GET or PUT on /inventory/{id} whose id is no integer in [0, N)
InvalidItemRequest(rq) ==
    LET parts == Parts(rq.path)
    IN  /\ rq.method \in {"GET", "PUT"}
        /\ Len(parts) = 2
        /\ parts[1] = "inventory"
        /\ ~(IsIntWord(parts[2]) /\ IntOf(parts[2]) \in Items)

\* the statements of _parse_path
ParseLabels == {"pp_acquire", "pp_check", "pp_send"}

\* C11: a GET or PUT on /inventory/{id} whose id is not an integer in [0, N)
\* never leaves _parse_path for a handler, so no core operation runs for it;
\* it is answered 404 with no X-Coins header and no body, and none of its
\* steps changes coins or inventory.
C11_InvalidIdRejected ==
    /\ [](\A r \in Req :
            pc[r] # "idle" /\ InvalidItemRequest(req[r]) =>
                /\ pc[r] \in ParseLabels \cup {"done"}
                /\ pre.r # r
                /\ absRes[r] = NoResponse
                /\ pc[r] = "done" => resp[r] = ErrorPlain(404))
    /\ [][\A r \in Req :
            pc'[r] # pc[r] /\ InvalidItemRequest(req'[r]) => UNCHANGED Shared]_vars

\* GET /inventory/3 has been answered 404 after another request changed the
\* coins
C11_Witness ==
    \E r \in Req :
        /\ pc[r] = "done"
        /\ InvalidItemRequest(req[r])
        /\ req[r].path = ItemPath("3")
        /\ resp[r] = ErrorPlain(404)
        /\ coins # start.coins

(***************************************************************************)
(* C12.  The coin field of PUT /.                                          *)
(***************************************************************************)
\* rq is a PUT on the root path
RootPut(rq) == rq.method = "PUT" /\ RawPath(rq.path) = <<"/">>

\* the statements of _handle_root_put under the lock
InsertLabels == {"put_acquire", "put_add", "put_total"}

\* r's request never reached a handler: it was answered rsp
RejectedWith(r, rsp) ==
    /\ pc[r] = "done"
    /\ resp[r] = rsp
    /\ pre.r # r
    /\ absRes[r] = NoResponse

CoinOrDefault(body) == IF body.coin = <<>> THEN 0 ELSE body.coin[1]

\* no body, or a JSON object, whose coin is absent, 0 or 1
CoinAccepted(body) ==
    body.kind \in {"absent", "object"} /\ CoinOrDefault(body) \in {0, 1}

\* bytes that are no JSON, or an object whose coin is another value
CoinRefused(body) ==
    \/ body.kind = "malformed"
    \/ body.kind = "object" /\ CoinOrDefault(body) \notin {0, 1}

DocumentedStatus == {200, 204, 400, 403, 404}

\* C13: every request to a method the handler serves, whatever its body
\* (absent, empty, malformed JSON, JSON that is no object, an object with any
\* coin value), ends in a response with status 200, 204, 400, 403 or 404; no
\* handler ends in an unhandled error that leaves the request unanswered.
C13_DocumentedResponse ==
    \A r \in Req :
        pc[r] = "done" /\ req[r].method \in Methods =>
            resp[r].status \in DocumentedStatus

(***************************************************************************)
(* C14.  Requests that match no route.                                     *)
(***************************************************************************)
\* rq's method and normalized path match one of PUT /, DELETE /,
\* GET /inventory, GET /inventory/{id}, PUT /inventory/{id}
MatchesRoute(rq) ==
    LET root == RawPath(rq.path) = <<"/">>
        parts == Parts(rq.path)
    IN  \/ rq.method \in {"PUT", "DELETE"} /\ root
        \/ rq.method = "GET" /\ ~root /\ parts = <<"inventory">>
        \/ rq.method \in {"GET", "PUT"} /\ ~root
             /\ Len(parts) = 2 /\ parts[1] = "inventory"

\* C14: a request whose method and normalized path match none of the five
\* routes (GET /, DELETE /inventory/0, PUT /inventory, a method other than
\* GET, PUT and DELETE, ...) reaches no handler and is answered 404 with no
\* header of the machine and no body.
C14_UnmatchedIs404 ==
    \A r \in Req :
        pc[r] # "idle" /\ ~MatchesRoute(req[r]) =>
            /\ pc[r] \in ParseLabels \cup {"done"}
            /\ pre.r # r
            /\ absRes[r] = NoResponse
            /\ pc[r] = "done" => resp[r] = ErrorPlain(404)

(***************************************************************************)
(* C15.  The inventory changes only by a successful purchase.              *)
(***************************************************************************)
\* the step of request r that takes one unit of item i: r is a purchase of
\* i that passed both checks and executes inventory[item_id] -= 1
TakesOne(r, i) ==
    /\ HandlerOf(req[r]) = "buy_acquire"
    /\ ItemOf(req[r]) = i
    /\ absRes[r].status = 200
    /\ pc[r] = "buy_dec_inv"
    /\ pc'[r] = "buy_dec_coins"
    /\ inventory' = [inventory EXCEPT ![i] = @ - 1]

\* C15: the inventory always has its N entries and no entry ever grows; a
\* step that changes the inventory is the decrement of a successful
\* PurchaseItem(i) and lowers inventory[i] by exactly 1, so the steps of
\* InsertCoin, CancelTransaction, the two reads and of every failed or
\* rejected request leave it unchanged.
C15_InventoryOnlyPurchased ==
    /\ [](DOMAIN inventory = Items)
    /\ [][\A i \in Items : inventory'[i] <= inventory[i]]_vars
    /\ [][inventory' # inventory =>
            \E r \in Req, i \in Items : TakesOne(r, i)]_vars

\* a purchase of item 0 succeeded and took one unit beside a cancel, an
\* insert, a read or a rejected request that has been answered too
C15_Witness ==
    \E r, q \in Req :
        /\ pc[r] = "done" /\ HandlerOf(req[r]) = "buy_acquire"
        /\ resp[r].status = 200
        /\ pc[q] = "done" /\ HandlerOf(req[q]) # "buy_acquire"
        /\ inventory = [start.inventory EXCEPT ![0] = @ - 1]

(***************************************************************************)
(* C16.  No response is written under the lock.                            *)
(***************************************************************************)
\* the labels whose statement is a call of _send_error_plain; every other
\* response is written by the step that first leaves the `with _lock` block
SendLabels == {"pp_send", "buy_send404", "buy_send403"}

\* C16: a request that is writing its HTTP response does not hold _lock, on
\* every path, the OutOfStock, InsufficientFunds and invalid-item-id
\* responses included.
C16_NoSendUnderLock ==
    \A r \in Req : pc[r] \in SendLabels => lock # r

(***************************************************************************)
(* C17.  The lock is released; no deadlock; every request completes.       *)
(***************************************************************************)
\* a step of the thread serving request r
Handle(r) ==
    \/ ParseItemId(r)
    \/ ParseReject(r)
    \/ InsertCoin(r)
    \/ CancelTransaction(r)
    \/ GetInventorySnapshot(r)
    \/ GetItemQuantity(r)
    \/ PurchaseItem(r)

\* fair scheduling: a thread that can keep on running does run
Fairness == \A r \in Req : WF_vars(Handle(r))

\* one unit of item 0 in stock and its price on account: from here the
\* requests reach the success and both failure branches of a purchase
FairInit ==
    InitFrom({State(ITEM_PRICE, [Constructed.inventory EXCEPT ![0] = 1])})

SpecFair == FairInit /\ [][Next]_vars /\ Fairness

\* the labels at which a request waits for the lock
AcquireLabels ==
    {"pp_acquire", "put_acquire", "del_acquire", "snap_acquire", "get_acquire",
     "buy_acquire"}

Running(r) == pc[r] \notin {"idle", "done"}

\* C17: a request that has returned does not hold the lock, on the early
\* returns of the failure branches too, and only a running request past its
\* acquire holds it; while a request is running some request can take a
\* step (no deadlock); and under fair scheduling every started request is
\* eventually answered.
C17_LockReleasedAndLive ==
    /\ [](\A r \in Req : ~Running(r) \/ pc[r] \in AcquireLabels => lock # r)
    /\ [](lock # NoHolder => Running(lock))
    /\ []((\E r \in Req : Running(r)) => ENABLED (\E r \in Req : Handle(r)))
    /\ \A r \in Req : (pc[r] # "idle") ~> (pc[r] = "done")

\* a purchase took the last unit and released the lock; a second purchase
\* then took the lock, left by the early return of the out-of-stock branch,
\* and the lock is free
C17_Witness ==
    \E r, q \in Req :
        /\ pc[q] = "done" /\ HandlerOf(req[q]) = "buy_acquire"
        /\ resp[q].status = 200
        /\ JustServed(r, "buy_acquire")
        /\ resp[r].status = 404
        /\ lock = NoHolder

(***************************************************************************)
(* C18.  Coin conservation.                                                *)
(***************************************************************************)
\* the totals the machine can hold within the bounds
CoinRange == 0..(MaxCoins + NumReq)

\* the number a client reads off the text of a header
ReadNat(text) == CHOOSE n \in CoinRange : Str(n) = text

\* what the answered request r did to the coins as its client sees it: the
\* amount of a PUT answered 204 (InsertCoin), minus the X-Coins of a DELETE
\* answered 204 (CancelTransaction), minus the price of a PUT answered 200
\* (PurchaseItem)
CoinEffect(r) ==
    IF pc[r] # "done" THEN 0
    ELSE IF req[r].method = "PUT" /\ resp[r].status = 204
    THEN CoinOrDefault(req[r].body)
    ELSE IF req[r].method = "DELETE" /\ resp[r].status = 204
    THEN 0 - ReadNat(resp[r].xcoins[1])
    ELSE IF req[r].method = "PUT" /\ resp[r].status = 200
    THEN 0 - ITEM_PRICE
    ELSE 0

RECURSIVE SumCoinEffect(_)
SumCoinEffect(n) == IF n = 0 THEN 0 ELSE CoinEffect(n) + SumCoinEffect(n - 1)

\* the purchases answered 200
SuccessfulPurchases ==
    {r \in Req : pc[r] = "done" /\ req[r].method = "PUT" /\ resp[r].status = 200}

RECURSIVE InventoryDecrease(_)
InventoryDecrease(n) ==
    IF n = 0 THEN 0
    ELSE (start.inventory[n - 1] - inventory[n - 1]) + InventoryDecrease(n - 1)

IndexLabels == {"get_read", "buy_qty", "buy_dec_inv", "buy_new_qty"}

\* the labels of the two item handlers, from their `with _lock` on
ItemHandlerLabels ==
    {"get_acquire", "get_read", "buy_acquire", "buy_qty", "buy_coins",
     "buy_send404", "buy_send403", "buy_dec_inv", "buy_dec_coins",
     "buy_new_qty", "buy_change"}

\* len(_state["inventory"])
LenInventory == Cardinality(DOMAIN inventory)

\* C19: the id validated in _parse_path's critical section is within the
\* inventory in the handler's later critical section: at every state where a
\* request is in _handle_item_get or _handle_item_put, and so wherever it
\* indexes inventory[item_id], 0 <= item_id < len(inventory), whatever the
\* other requests did in between.
C19_IndexInRange ==
    \A r \in Req :
        pc[r] \in ItemHandlerLabels \cup IndexLabels =>
            /\ loc[r].item_id # <<>>
            /\ 0 <= loc[r].item_id[1]
            /\ loc[r].item_id[1] < LenInventory
            /\ loc[r].item_id[1] \in DOMAIN inventory

\* a request is about to index the inventory after a purchase of another
\* request changed it
C19_Witness ==
    \E r, q \in Req :
        /\ pc[r] \in IndexLabels
        /\ q \in SuccessfulPurchases
        /\ inventory # start.inventory

=============================================================================
